---- MODULE Spec2Model ----
(***************************************************************************)
(* A model of installdist (src/installdist.py): one run of Installer.main. *)
(*                                                                         *)
(* Python strings are modelled as "texts": sequences of one-character      *)
(* strings, so that startswith/endswith/split/join/comparison are computed *)
(* character by character, as the code computes them.                      *)
(***************************************************************************)
EXTENDS Integers, Sequences, FiniteSets, TLC

\* ------------------------------------------------------------------ bounds

\* The most archives a directory listing (glob) returns.
MaxFiles == 3

\* ------------------------------------------------------------ text helpers

Digits == <<"0", "1", "2", "3", "4", "5", "6", "7", "8", "9">>

Lowers == <<"a", "b", "c", "d", "e", "f", "g", "h", "i", "j", "k", "l", "m",
            "n", "o", "p", "q", "r", "s", "t", "u", "v", "w", "x", "y", "z">>

Uppers == <<"A", "B", "C", "D", "E", "F", "G", "H", "I", "J", "K", "L", "M",
            "N", "O", "P", "Q", "R", "S", "T", "U", "V", "W", "X", "Y", "Z">>

IndexIn(c, seq) ==
    CHOOSE i \in 1..Len(seq) : seq[i] = c

IsDigit(c) ==
    \E i \in 1..Len(Digits) : Digits[i] = c

IsLower(c) ==
    \E i \in 1..Len(Lowers) : Lowers[i] = c

IsUpper(c) ==
    \E i \in 1..Len(Uppers) : Uppers[i] = c

\* The code point of a character (the order of Python's str comparison).
Ord(c) ==
    IF IsDigit(c) THEN 47 + IndexIn(c, Digits)
    ELSE IF IsLower(c) THEN 96 + IndexIn(c, Lowers)
    ELSE IF IsUpper(c) THEN 64 + IndexIn(c, Uppers)
    ELSE IF c = " " THEN 32
    ELSE IF c = "-" THEN 45
    ELSE IF c = "." THEN 46
    ELSE IF c = "/" THEN 47
    ELSE IF c = ":" THEN 58
    ELSE IF c = "_" THEN 95
    ELSE 124

\* str.lower() of one character.
LowerChar(c) ==
    IF IsUpper(c) THEN Lowers[IndexIn(c, Uppers)] ELSE c

\* str.startswith
StartsWith(s, prefix) ==
    /\ Len(prefix) <= Len(s)
    /\ SubSeq(s, 1, Len(prefix)) = prefix

\* str.endswith
EndsWith(s, suffix) ==
    /\ Len(suffix) <= Len(s)
    /\ SubSeq(s, Len(s) - Len(suffix) + 1, Len(s)) = suffix

\* The 1-based start of the first occurrence of sep in s at or after i, 0 if none.
RECURSIVE FindFrom(_, _, _)
FindFrom(s, sep, i) ==
    IF i + Len(sep) - 1 > Len(s) THEN 0
    ELSE IF SubSeq(s, i, i + Len(sep) - 1) = sep THEN i
    ELSE FindFrom(s, sep, i + 1)

\* str.split(sep): the list of the pieces of s between occurrences of sep.
RECURSIVE Split(_, _)
Split(s, sep) ==
    LET i == FindFrom(s, sep, 1)
    IN  IF i = 0 THEN <<s>>
        ELSE <<SubSeq(s, 1, i - 1)>> \o Split(SubSeq(s, i + Len(sep), Len(s)), sep)

\* sep.join(parts)
RECURSIVE JoinWith(_, _)
JoinWith(parts, sep) ==
    IF parts = <<>> THEN <<>>
    ELSE IF Len(parts) = 1 THEN parts[1]
    ELSE parts[1] \o sep \o JoinWith(Tail(parts), sep)

\* Python's < on two strings: lexicographic by code point, a proper prefix first.
RECURSIVE StrLess(_, _)
StrLess(a, b) ==
    IF b = <<>> THEN FALSE
    ELSE IF a = <<>> THEN TRUE
    ELSE IF Ord(a[1]) # Ord(b[1]) THEN Ord(a[1]) < Ord(b[1])
    ELSE StrLess(Tail(a), Tail(b))


\* ------------------------------------------------------- results of calls

\* A call returns a value or raises: exc is the exception's name, "" if none.
Return(v) ==
    [exc |-> "", val |-> v]

Raise(e) ==
    [exc |-> e, val |-> <<>>]

\* ------------------------------------------------- distutils LooseVersion

\* The class of a character under LooseVersion.component_re,
\* (\d+ | [a-z]+ | \.): a digit, a lower-case letter, a dot, or anything else
\* (text that re.split leaves between the matches).
CharClass(c) ==
    IF IsDigit(c) THEN "digit"
    ELSE IF IsLower(c) THEN "alpha"
    ELSE IF c = "." THEN "dot"
    ELSE "other"

\* The length of the longest run of characters of class k at the head of s.
RECURSIVE RunLength(_, _)
RunLength(s, k) ==
    IF s = <<>> \/ CharClass(s[1]) # k THEN 0
    ELSE 1 + RunLength(Tail(s), k)

\* component_re.split(vstring) without its empty strings: runs of digits, runs
\* of letters, single dots, and the text in between.
RECURSIVE ComponentSplit(_)
ComponentSplit(s) ==
    IF s = <<>> THEN <<>>
    ELSE LET k == CharClass(s[1])
             n == IF k = "dot" THEN 1 ELSE RunLength(s, k)
         IN  <<SubSeq(s, 1, n)>> \o ComponentSplit(SubSeq(s, n + 1, Len(s)))

\* int() of a run of digits.
RECURSIVE ToInt(_)
ToInt(s) ==
    IF s = <<>> THEN 0
    ELSE 10 * ToInt(SubSeq(s, 1, Len(s) - 1)) + (IndexIn(s[Len(s)], Digits) - 1)

\* One component of a parsed version: an int or a str.
Component(x) ==
    IF CharClass(x[1]) = "digit"
    THEN [isint |-> TRUE, n |-> ToInt(x), s |-> <<>>]
    ELSE [isint |-> FALSE, n |-> 0, s |-> x]

\* LooseVersion.parse: the components that are neither empty nor ".", each
\* converted to int where int() accepts it.
LooseVersionParse(vstring) ==
    LET parts == ComponentSplit(vstring)
        kept  == SelectSeq(parts, LAMBDA x : x # <<".">>)
    IN  [i \in 1..Len(kept) |-> Component(kept[i])]

\* Python 3's a < b on two lists of components: the first pair of unequal
\* elements decides, and comparing an int with a str raises TypeError; with no
\* unequal pair the shorter list is the smaller.  "True", "False" or "TypeError".
RECURSIVE ListLess(_, _)
ListLess(a, b) ==
    IF a = <<>> \/ b = <<>> THEN (IF Len(a) < Len(b) THEN "True" ELSE "False")
    ELSE IF a[1] = b[1] THEN ListLess(Tail(a), Tail(b))
    ELSE IF a[1].isint # b[1].isint THEN "TypeError"
    ELSE IF a[1].isint THEN (IF a[1].n < b[1].n THEN "True" ELSE "False")
    ELSE (IF StrLess(a[1].s, b[1].s) THEN "True" ELSE "False")

\* key(a) > key(b) for the keys versionkey builds with the given wrapper:
\* "True", "False", or the name of the exception the comparison raises.
\* LooseVersion.__gt__ is _cmp(other) > 0, and _cmp tests ==, then <, then >
\* on the component lists; LooseVersion('') parses nothing and has no
\* component list (AttributeError).  str compares the version strings.
KeyGreater(a, b, wrapper) ==
    IF wrapper = "str" THEN (IF StrLess(b, a) THEN "True" ELSE "False")
    ELSE IF a = <<>> \/ b = <<>> THEN "AttributeError"
    ELSE LET va == LooseVersionParse(a)
             vb == LooseVersionParse(b)
         IN  IF va = vb THEN "False"
             ELSE IF ListLess(va, vb) = "TypeError" THEN "TypeError"
             ELSE IF ListLess(va, vb) = "True" THEN "False"
             ELSE ListLess(vb, va)

\* ---------------------------------------------- string literals of the code

T_pip2 ==
    <<"p", "i", "p", "2">>

T_pip3 ==
    <<"p", "i", "p", "3">>

T_install ==
    <<"i", "n", "s", "t", "a", "l", "l">>

T_uninstall ==
    <<"u", "n", "i", "n", "s", "t", "a", "l", "l">>

T_user ==
    <<"-", "-", "u", "s", "e", "r">>

T_targz ==
    <<".", "t", "a", "r", ".", "g", "z">>

T_whl ==
    <<".", "w", "h", "l">>

T_pkginfo ==
    <<"/", "P", "K", "G", "-", "I", "N", "F", "O">>

T_metajson ==
    <<".", "d", "i", "s", "t", "-", "i", "n", "f", "o", "/", "m", "e", "t", "a", "d", "a", "t", "a", ".", "j", "s", "o", "n">>

T_colon ==
    <<":", " ">>

T_name ==
    <<"n", "a", "m", "e">>

T_version ==
    <<"v", "e", "r", "s", "i", "o", "n">>

T_Name ==
    <<"N", "a", "m", "e">>

T_Version ==
    <<"V", "e", "r", "s", "i", "o", "n">>

T_Location ==
    <<"L", "o", "c", "a", "t", "i", "o", "n">>

T_dot ==
    <<".">>

T_dist ==
    <<"d", "i", "s", "t", "/">>

T_updist ==
    <<".", ".", "/", "d", "i", "s", "t", "/">>

T_slash ==
    <<"/">>

T_space ==
    <<" ">>

T_bar ==
    <<"|">>

T_dryrun ==
    <<"D", "R", "Y", "R", "U", "N", ":", " ">>

T_dryinstall ==
    <<"D", "R", "Y", "R", "U", "N", ":", " ", "I", "n", "s", "t", "a", "l", "l", "i", "n", "g", " ", "'">>

T_quote ==
    <<"'">>

T_dryuninstall ==
    <<"D", "R", "Y", "R", "U", "N", ":", " ", "U", "n", "i", "n", "s", "t", "a", "l", "l", "i", "n", "g", " ">>

\* ------------------------------------------------------------ os.path, str

\* os.path.join(a, b) for a relative b.
OsPathJoin(a, b) ==
    IF a = <<>> THEN b
    ELSE IF a[Len(a)] = "/" THEN a \o b
    ELSE a \o T_slash \o b

\* The 1-based index of the first element of seq equal to x, 0 if none.
RECURSIVE IndexOf(_, _, _)
IndexOf(seq, x, i) ==
    IF i > Len(seq) THEN 0
    ELSE IF seq[i] = x THEN i
    ELSE IndexOf(seq, x, i + 1)

\* list.remove(x): the list without the first occurrence of x.
ListRemove(seq, x) ==
    LET i == IndexOf(seq, x, 1)
    IN  IF i = 0 THEN seq
        ELSE SubSeq(seq, 1, i - 1) \o SubSeq(seq, i + 1, Len(seq))

UpperChar(c) ==
    IF IsLower(c) THEN Uppers[IndexIn(c, Lowers)] ELSE c

\* str.lower()
Lower(s) ==
    [i \in 1..Len(s) |-> LowerChar(s[i])]

\* str.capitalize(): the first character upper-cased, the rest lower-cased.
Capitalize(s) ==
    [i \in 1..Len(s) |-> IF i = 1 THEN UpperChar(s[i]) ELSE LowerChar(s[i])]

\* ------------------------------------------------------- metadata reader

\* An archive on disk is the list of its members (afo.getnames() or
\* afo.namelist(), in order), each with the content the reader decodes: the
\* lines of a PKG-INFO, or the key/value pairs of a metadata.json.

\* getmetapath: the first member whose path ends in the manifest's name for the
\* container; AttributeError if there is none.  Returns the member's index.
RECURSIVE FirstMemberEnding(_, _, _)
FirstMemberEnding(members, suffix, i) ==
    IF i > Len(members) THEN 0
    ELSE IF EndsWith(members[i].path, suffix) THEN i
    ELSE FirstMemberEnding(members, suffix, i + 1)

getmetapath(archive, container) ==
    LET suffix == IF container = "tar" THEN T_pkginfo ELSE T_metajson
        i      == FirstMemberEnding(archive.members, suffix, 1)
    IN  IF i = 0 THEN Raise("AttributeError") ELSE Return(i)

\* The first line of metalines that starts with prefix, 0 if none.
RECURSIVE FirstLineStarting(_, _, _)
FirstLineStarting(metalines, prefix, i) ==
    IF i > Len(metalines) THEN 0
    ELSE IF StartsWith(metalines[i], prefix) THEN i
    ELSE FirstLineStarting(metalines, prefix, i + 1)

\* dict lookup in the decoded metadata.json: the index of the key, 0 if absent.
RECURSIVE KeyIndex(_, _, _)
KeyIndex(pairs, key, i) ==
    IF i > Len(pairs) THEN 0
    ELSE IF pairs[i].key = key THEN i
    ELSE KeyIndex(pairs, key, i + 1)

\* getmetafield(pkgpath, field), archive being the file at pkgpath.
getmetafield(pkgpath, archive, field) ==
    IF EndsWith(pkgpath, T_targz)
    THEN LET mp == getmetapath(archive, "tar")
         IN  IF mp.exc # "" THEN Raise(mp.exc)
             ELSE LET metalines == archive.members[mp.val].lines
                      i == FirstLineStarting(metalines, Capitalize(field) \o T_colon, 1)
                  IN  IF i # 0
                      THEN LET pieces == Split(metalines[i], T_colon)
                           IN  Return(pieces[Len(pieces)])
                      ELSE Raise("Exception")
    ELSE IF EndsWith(pkgpath, T_whl)
    THEN LET mp == getmetapath(archive, "zip")
         IN  IF mp.exc # "" THEN Raise(mp.exc)
             ELSE LET metadata == archive.members[mp.val].json
                      i == KeyIndex(metadata, Lower(field), 1)
                  IN  IF i # 0 THEN Return(metadata[i].val)
                      ELSE Raise("Exception")
    ELSE Raise("Exception")

\* ------------------------------------------------------- archive locator

searchpaths ==
    <<T_dot, T_dist, T_updist>>

\* os.path.basename(os.path.abspath(testpath)) == 'dist' and
\* os.path.isdir(testpath), for the i-th search path: the absolute path of
\* startpath/. is the start directory itself, whose name the environment gives;
\* the other two search paths name a directory called dist.
IsDistDir(i, env) ==
    /\ env.isdir[i]
    /\ IF searchpaths[i] = T_dot THEN env.startisdist ELSE TRUE

\* detectdistpath(startpath): the first search path that is a directory named
\* dist; <<>> stands for None (a test path is never empty).
RECURSIVE detectFrom(_, _, _)
detectFrom(startpath, env, i) ==
    IF i > Len(searchpaths) THEN <<>>
    ELSE LET testpath == IF startpath # <<>>
                         THEN OsPathJoin(startpath, searchpaths[i])
                         ELSE searchpaths[i]
         IN  IF IsDistDir(i, env) THEN testpath
             ELSE detectFrom(startpath, env, i + 1)

detectdistpath(startpath, env) ==
    detectFrom(startpath, env, 1)

\* --------------------------------------------------------- version selector

\* versionkey(pkgpath): the version field of the file's metadata (the wrapper
\* is applied when keys are compared, see KeyGreater).
versionkey(file) ==
    getmetafield(file.path, file.archive, T_version)

\* max(files, key=versionkey): the key of each item is computed as the item is
\* reached and compared with the key of the greatest so far, which is replaced
\* only by a strictly greater one; an exception from a key or a comparison
\* propagates.  best is the index of the greatest so far, 0 before the first.
RECURSIVE MaxByVersion(_, _, _, _)
MaxByVersion(files, i, best, wrapper) ==
    IF i > Len(files) THEN Return(files[best].path)
    ELSE LET val == versionkey(files[i])
         IN  IF val.exc # "" THEN Raise(val.exc)
             ELSE IF best = 0 THEN MaxByVersion(files, i + 1, i, wrapper)
             ELSE LET gt == KeyGreater(val.val, versionkey(files[best]).val, wrapper)
                  IN  IF gt \notin {"True", "False"} THEN Raise(gt)
                      ELSE IF gt = "True" THEN MaxByVersion(files, i + 1, i, wrapper)
                      ELSE MaxByVersion(files, i + 1, best, wrapper)

\* max(files, key=os.path.getctime)
RECURSIVE MaxByCtime(_, _, _)
MaxByCtime(files, i, best) ==
    IF i > Len(files) THEN Return(files[best].path)
    ELSE IF best = 0 \/ files[i].ctime > files[best].ctime
         THEN MaxByCtime(files, i + 1, i)
         ELSE MaxByCtime(files, i + 1, best)

\* A variant of selectpackage that ignores the strategy and takes the newest.
selectpackage_Newest(files, newsort, wrapper) ==
    IF files # <<>> THEN MaxByCtime(files, 1, 0) ELSE Return(<<>>)

\* The selection among the candidate files (lines 98-104); <<>> stands for the
\* None that findpackage returns when there is no candidate.
selectpackage(files, newsort, wrapper) ==
    IF files # <<>>
    THEN IF newsort THEN MaxByCtime(files, 1, 0)
         ELSE MaxByVersion(files, 1, 0, wrapper)
    ELSE Return(<<>>)

\* findpackage(distpath): listing is the directory's content in glob's order.
\* glob keeps the entries matching '*' + extension, each under the directory
\* as given; files keeps those that are regular and readable.
findpackage(distpath, listing, wheel, newsort, wrapper) ==
    LET dir       == IF distpath = <<>> THEN T_dot ELSE distpath
        extension == IF wheel THEN T_whl ELSE T_targz
        matched   == SelectSeq(listing, LAMBDA e : EndsWith(e.base, extension))
        paths     == [i \in 1..Len(matched) |->
                        [path    |-> OsPathJoin(dir, matched[i].base),
                         archive |-> matched[i].archive,
                         ctime   |-> matched[i].ctime,
                         regular |-> matched[i].regular]]
        files     == SelectSeq(paths, LAMBDA f : f.regular)
    IN  selectpackage(files, newsort, wrapper)

\* ------------------------------------------------------------ confirmation

\* _confirm: terminal is what input() finds: an end of stream (eof) or a line.
\* input() raises EOFError at the end of the stream; rawinput[0] raises
\* IndexError on an empty line, which is caught.
_confirm(terminal) ==
    IF terminal.eof THEN Raise("EOFError")
    ELSE LET rawinput == terminal.line
         IN  IF rawinput = <<>> THEN Return(FALSE)
             ELSE Return(LowerChar(rawinput[1]) = "y")

\* ------------------------------------------------- installed-package query

\* showpackage: probe is what the pipeline '<pip> show <name> | awk ...' does:
\* it hangs past the timeout, or awk ends with n, v, l set from the Name,
\* Version and Location lines (empty when there is no such line), exiting 1
\* when n is empty and printing n|v|l otherwise.
showpackage(probe) ==
    IF probe.hangs THEN Raise("TimeoutExpired")
    ELSE LET returncode == IF probe.n = <<>> THEN 1 ELSE 0
             stdout     == IF probe.n = <<>> THEN <<>>
                           ELSE probe.n \o T_bar \o probe.v \o T_bar \o probe.l
         IN  IF returncode # 0
             THEN Return([isdict |-> FALSE, name |-> <<>>, version |-> <<>>,
                          location |-> <<>>])
             ELSE LET info == Split(stdout, T_bar)
                  IN  Return([isdict |-> TRUE, name |-> info[1],
                              version |-> info[2], location |-> info[3]])

\* ------------------------------------------------------------- executor

\* installpackage's argument list (lines 165-169).
installargs(pipv, system, pkgpath) ==
    LET args == <<pipv, T_install, T_user, pkgpath>>
    IN  IF system THEN ListRemove(args, T_user) ELSE args

\* uninstallpackage's argument list (line 309).
uninstallargs(pipv, pkgname) ==
    <<pipv, T_uninstall, pkgname>>

\* A variant of PrintArgs that prints the list as one argument would be:
\* separated by commas.
PrintArgs_List(args) ==
    JoinWith(args, <<",", " ">>)

\* print(*args): the arguments separated by single spaces, on one line.
PrintArgs(args) ==
    JoinWith(args, T_space)

\* _execute(*args): the command string handed to os.system.
ExecuteCommand(args) ==
    JoinWith(args, T_space)

\* ------------------------------------------------- the files of the model

T_pkg ==
    <<"p", "k", "g">>

T_dash ==
    <<"-">>

T_metaversion ==
    <<"M", "e", "t", "a", "d", "a", "t", "a", "-", "V", "e", "r", "s", "i", "o", "n", ":", " ", "1", ".", "1">>

T_setup ==
    <<"/", "s", "e", "t", "u", "p", ".", "p", "y">>

T_distinfo ==
    <<".", "d", "i", "s", "t", "-", "i", "n", "f", "o", "/", "M", "E", "T", "A", "D", "A", "T", "A">>

T_wheeltag ==
    <<"-", "p", "y", "3", "-", "n", "o", "n", "e", "-", "a", "n", "y">>

T_zip ==
    <<".", "z", "i", "p">>

T_site ==
    <<"/", "u", "s", "r", "/", "l", "i", "b", "/", "p", "y", "t", "h", "o", "n", "3", "/", "d", "i", "s", "t", "-", "p", "a", "c", "k", "a", "g", "e", "s">>

\* A member of an archive.
Member(path, lines, json) ==
    [path |-> path, lines |-> lines, json |-> json]

\* An sdist pkg-<version>.tar.gz as setuptools builds it: its PKG-INFO holds the
\* given lines after the Metadata-Version line.
Sdist(version, fields, ctime) ==
    LET top == T_pkg \o T_dash \o version
    IN  [base    |-> top \o T_targz,
         archive |-> [members |-> <<Member(top, <<>>, <<>>),
                                    Member(top \o T_pkginfo,
                                           <<T_metaversion>> \o fields, <<>>)>>],
         ctime   |-> ctime,
         regular |-> TRUE]

NameLine(name) ==
    T_Name \o T_colon \o name

VersionLine(version) ==
    T_Version \o T_colon \o version

\* A well-formed sdist of package pkg.
GoodSdist(version, ctime) ==
    Sdist(version, <<NameLine(T_pkg), VersionLine(version)>>, ctime)

\* A wheel pkg-<version>-py3-none-any.whl with the given metadata member.
Wheel(version, metaname, json, ctime) ==
    LET top == T_pkg \o T_dash \o version
    IN  [base    |-> top \o T_wheeltag \o T_whl,
         archive |-> [members |-> <<Member(top \o metaname, <<>>, json)>>],
         ctime   |-> ctime,
         regular |-> TRUE]

Pair(key, val) ==
    [key |-> key, val |-> val]

V_1_0 ==
    <<"1", ".", "0">>

V_2_0 ==
    <<"2", ".", "0">>

V_2_0_beta ==
    <<"2", ".", "0", "-", "b", "e", "t", "a">>

V_2_0_dotbeta ==
    <<"2", ".", "0", ".", "b", "e", "t", "a">>

V_2_0_rev ==
    <<"2", ".", "0", "-", "r", "e", "v">>

V_2_0_dotrev ==
    <<"2", ".", "0", ".", "r", "e", "v">>

V_2_0_1 ==
    <<"2", ".", "0", ".", "1">>

V_10_0 ==
    <<"1", "0", ".", "0">>

V_0_1 ==
    <<"0", ".", "1">>

V_0_2 ==
    <<"0", ".", "2">>

V_0_3 ==
    <<"0", ".", "3">>

V_0_5 ==
    <<"0", ".", "5">>

\* The directory entries the model draws listings from.
Catalog ==
    <<GoodSdist(V_1_0, 1),
      GoodSdist(V_2_0, 3),
      \* a sdist archive with no PKG-INFO member
      [base    |-> T_pkg \o T_dash \o V_0_1 \o T_targz,
       archive |-> [members |-> <<Member(T_pkg \o T_dash \o V_0_1, <<>>, <<>>),
                                  Member(T_pkg \o T_dash \o V_0_1 \o T_setup, <<>>, <<>>)>>],
       ctime   |-> 5,
       regular |-> TRUE],
      \* PKG-INFO without a Version line
      Sdist(V_0_2, <<NameLine(T_pkg)>>, 5),
      \* PKG-INFO whose Name line is empty
      Sdist(V_0_3, <<NameLine(<<>>), VersionLine(V_0_3)>>, 6),
      \* a wheel with a metadata.json
      Wheel(V_1_0, T_metajson,
            <<Pair(T_name, T_pkg), Pair(T_version, V_1_0)>>, 1),
      \* a wheel with METADATA only
      Wheel(V_2_0, T_distinfo, <<>>, 2),
      \* not a regular readable file
      [base    |-> T_pkg \o T_dash \o V_0_5 \o T_targz,
       archive |-> [members |-> <<>>],
       ctime   |-> 9,
       regular |-> FALSE],
      GoodSdist(V_2_0_beta, 2),
      GoodSdist(V_2_0_dotbeta, 2),
      GoodSdist(V_2_0_rev, 4),
      GoodSdist(V_2_0_dotrev, 4),
      GoodSdist(V_2_0_1, 7),
      GoodSdist(V_10_0, 8)>>

\* The entries a run of main finds in the directories it scans.
MainCatalog ==
    SubSeq(Catalog, 1, 8)

\* The entries findpackage is tested on: the archives of main's catalog that
\* it can select or trip over, and the pre-release versions.
FindCatalog ==
    <<Catalog[1], Catalog[2], Catalog[3], Catalog[6], Catalog[8]>>
    \o SubSeq(Catalog, 9, 14)

\* The listings of at most max entries of catalog, without repetition, in any
\* order.
Listings(catalog, max) ==
    UNION {{[i \in 1..n |-> catalog[f[i]]] :
              f \in {g \in [1..n -> 1..Len(catalog)] :
                       \A i, j \in 1..n : i # j => g[i] # g[j]}} :
           n \in 0..max}

\* --------------------------------------------------------------- inputs

T_targetsdist ==
    T_pkg \o T_dash \o V_2_0 \o T_targz

T_targetzip ==
    T_pkg \o T_zip

\* The positional target: <<>> stands for None (no target given).
Targets ==
    {<<>>, T_targetsdist, T_targetzip}

\* The file a target names, when it is a file.
TargetArchive(target) ==
    IF target = T_targetsdist THEN Catalog[2].archive
    ELSE [members |-> <<>>]

\* What the parser can return (verbose only sets the logging level).
Options ==
    [pip2 : BOOLEAN, dryrun : BOOLEAN, system : BOOLEAN, newsort : BOOLEAN,
     wheel : BOOLEAN, package : {T_dot}, target : Targets]

\* self.options = None, before main parses the arguments.
NoOptions ==
    [pip2 |-> FALSE, dryrun |-> FALSE, system |-> FALSE, newsort |-> FALSE,
     wheel |-> FALSE, package |-> <<>>, target |-> <<>>]

\* Which of the three search paths are directories, and whether the start
\* directory is itself called dist.
DirEnvs ==
    {[isdir |-> <<TRUE, FALSE, FALSE>>, startisdist |-> TRUE],
     [isdir |-> <<TRUE, TRUE, FALSE>>, startisdist |-> FALSE],
     [isdir |-> <<TRUE, FALSE, TRUE>>, startisdist |-> FALSE],
     [isdir |-> <<TRUE, FALSE, FALSE>>, startisdist |-> FALSE]}

\* The version wrapper versionkey ends up with: LooseVersion where distutils
\* can be imported, str where the import fails.
Wrappers ==
    {"LooseVersion", "str"}

\* What the terminal holds when input() reads.
T_y ==
    <<"y">>

T_Y ==
    <<"Y">>

T_yes ==
    <<"y", "e", "s">>

T_n ==
    <<"n">>

T_spacey ==
    <<" ", "y">>

Terminals ==
    {[eof |-> TRUE, line |-> <<>>]}
    \cup {[eof |-> FALSE, line |-> l] : l \in {<<>>, T_y, T_Y, T_yes, T_n, T_spacey}}

\* What the show pipeline does (see showpackage).
Probes ==
    {[hangs |-> TRUE, n |-> <<>>, v |-> <<>>, l |-> <<>>],
     [hangs |-> FALSE, n |-> <<>>, v |-> <<>>, l |-> <<>>],
     [hangs |-> FALSE, n |-> T_pkg, v |-> V_1_0, l |-> T_site],
     [hangs |-> FALSE, n |-> T_pkg, v |-> <<>>, l |-> <<>>]}

\* The exit statuses os.system can report for the package manager.
ExitStatuses ==
    {0, 1}

\* ---------------------------------------------------------------- state

VARIABLES
    pc,         \* the position of the run
    options,    \* self.options
    pipv,       \* self.options.pipv
    pkgpath,    \* self.pkgpath
    archive,    \* the file at pkgpath
    pkgname,    \* self.pkgname
    pkgversion, \* self.pkgversion
    results,    \* what showpackage returned to promptuninstall
    confirms,   \* what each call of _confirm found on the terminal and did
    probed,     \* what the show pipeline did
    queried,    \* the names showpackage was asked about
    executed,   \* the commands handed to os.system, with their exit statuses
    printed,    \* the lines printed on stdout
    events,     \* the steps of the run, in order
    exitstatus, \* the exit status of the process, once it has ended
    raised,     \* the exception that ended the run, "" if none
    distpath,   \* findpackage under test: the directory it is given
    files,      \* findpackage under test: the directory listing
    wrapper,    \* findpackage under test: the version wrapper
    found       \* findpackage under test: its result

vars ==
    <<pc, options, pipv, pkgpath, archive, pkgname, pkgversion, results,
      confirms, probed, queried, executed, printed, events,
      exitstatus, raised, distpath, files, wrapper, found>>

NoResults ==
    [isdict |-> FALSE, name |-> <<>>, version |-> <<>>, location |-> <<>>]

NoProbe ==
    [hangs |-> FALSE, n |-> <<>>, v |-> <<>>, l |-> <<>>]

\* Installer() and the start of the process.
Init ==
    /\ pc = "main"
    /\ options = NoOptions
    /\ pipv = <<>>
    /\ pkgpath = <<>>
    /\ archive = [members |-> <<>>]
    /\ pkgname = <<>>
    /\ pkgversion = <<>>
    /\ results = NoResults
    /\ confirms = <<>>
    /\ probed = NoProbe
    /\ queried = <<>>
    /\ executed = <<>>
    /\ printed = <<>>
    /\ events = <<>>
    /\ exitstatus = -1
    /\ raised = ""
    /\ distpath = <<>>
    /\ files = <<>>
    /\ wrapper = "LooseVersion"
    /\ found = Return(<<>>)

finderVars ==
    <<distpath, files, wrapper, found>>

\* The process ends: sys.exit(status), or an exception nobody catches, which
\* the interpreter reports with a traceback and exit status 1.
Exit(status, exc) ==
    /\ pc' = "exited"
    /\ exitstatus' = status
    /\ raised' = exc

Log(event) ==
    events' = Append(events, event)

\* ------------------------------------------------------------- control flow

\* main, lines 207-214: the uninstall prompt is offered only for a name that
\* is not empty.
AfterMetadata(name) ==
    IF name # <<>> THEN "promptuninstall" ELSE "promptinstall"

\* A variant of AfterShow that offers the prompt whatever the query returned.
AfterShow_Always(res) ==
    "confirmuninstall"

\* promptuninstall, lines 246 and 262: the prompt is offered only for results
\* that are true (a dict that is not empty).
AfterShow(res) ==
    IF res.isdict THEN "confirmuninstall" ELSE "promptinstall"

\* A variant of AfterUninstallPrompt that goes on to the install prompt after a
\* refusal.
AfterUninstallPrompt_Proceed(ok) ==
    IF ok THEN "uninstallpackage" ELSE "promptinstall"

\* promptuninstall, lines 257-260.
AfterUninstallPrompt(ok) ==
    IF ok THEN "uninstallpackage" ELSE "exit"

\* A variant of AfterUninstall that queries the package again.
AfterUninstall_Requery ==
    "promptuninstall"

\* main, line 214: promptinstall follows promptuninstall.
AfterUninstall ==
    "promptinstall"

\* A variant of AfterInstallPrompt that installs whatever the answer.
AfterInstallPrompt_Always(ok) ==
    "installpackage"

\* promptinstall, lines 222-225.
AfterInstallPrompt(ok) ==
    IF ok THEN "installpackage" ELSE "exit"

\* ---------------------------------------------------------------- actions

\* main, lines 193-196: parse the command line.
ParseArgs ==
    /\ pc = "main"
    /\ options' \in Options
    /\ pc' = "checkpip"
    /\ UNCHANGED <<pipv, pkgpath, archive, pkgname, pkgversion, results,
                   confirms, probed, queried, executed, printed,
                   events, exitstatus, raised, finderVars>>

\* checkpip: finder raises FileNotFoundError when the executable is missing.
CheckPip ==
    /\ pc = "checkpip"
    /\ Log("checkpip")
    /\ \E available \in BOOLEAN :
         LET script == IF options.pip2 THEN T_pip2 ELSE T_pip3
         IN  IF available
             THEN /\ pipv' = script
                  /\ pc' = "configpackage"
                  /\ UNCHANGED <<exitstatus, raised>>
             ELSE /\ Exit(1, "FileNotFoundError")
                  /\ UNCHANGED pipv
    /\ UNCHANGED <<options, pkgpath, archive, pkgname, pkgversion, results,
                   confirms, probed, queried, executed, printed,
                   finderVars>>

\* The archive of the listing's entry that glob reported as path.
ArchiveAt(path, dir, listing) ==
    LET e == CHOOSE x \in {listing[i] : i \in 1..Len(listing)} :
                 OsPathJoin(dir, x.base) = path
    IN  e.archive

\* configpackage, called from main line 201: the target if it is a file, else
\* the archive findpackage selects in the directory detectdistpath gives;
\* _fatal when there is none.
ConfigPackage ==
    /\ pc = "configpackage"
    /\ Log("locate")
    /\ IF options.target # <<>>
       THEN \E isfile \in BOOLEAN :
              IF isfile
              THEN /\ pkgpath' = options.target
                   /\ archive' = TargetArchive(options.target)
                   /\ pc' = "getmeta"
                   /\ UNCHANGED <<exitstatus, raised>>
              ELSE /\ Exit(1, "SystemExit")
                   /\ UNCHANGED <<pkgpath, archive>>
       ELSE \E env \in DirEnvs, listing \in Listings(MainCatalog, MaxFiles),
               w \in Wrappers :
              LET dist == detectdistpath(options.package, env)
                  r == findpackage(dist, listing, options.wheel,
                                   options.newsort, w)
              IN  IF r.exc # ""
                  THEN /\ Exit(1, r.exc)
                       /\ UNCHANGED <<pkgpath, archive>>
                  ELSE IF r.val # <<>>
                  THEN /\ pkgpath' = r.val
                       /\ archive' = ArchiveAt(r.val,
                                        IF dist = <<>> THEN T_dot ELSE dist,
                                        listing)
                       /\ pc' = "getmeta"
                       /\ UNCHANGED <<exitstatus, raised>>
                  ELSE /\ Exit(1, "SystemExit")
                       /\ UNCHANGED <<pkgpath, archive>>
    /\ UNCHANGED <<options, pipv, pkgname, pkgversion, results, confirms,
                   probed, queried, executed, printed, finderVars>>

\* main, lines 204-212: read the name and the version of the archive; an
\* exception of getmetafield is not caught.
GetMeta ==
    /\ pc = "getmeta"
    /\ Log("readmeta")
    /\ LET name    == getmetafield(pkgpath, archive, T_name)
           version == getmetafield(pkgpath, archive, T_version)
       IN  IF name.exc # ""
           THEN /\ Exit(1, name.exc)
                /\ UNCHANGED <<pkgname, pkgversion>>
           ELSE IF version.exc # ""
           THEN /\ Exit(1, version.exc)
                /\ pkgname' = name.val
                /\ UNCHANGED pkgversion
           ELSE /\ pkgname' = name.val
                /\ pkgversion' = version.val
                /\ pc' = AfterMetadata(name.val)
                /\ UNCHANGED <<exitstatus, raised>>
    /\ UNCHANGED <<options, pipv, pkgpath, archive, results, confirms,
                   probed, queried, executed, printed, finderVars>>

\* promptuninstall, lines 244-252 and 262-263: query the installed package and
\* print what was found.
ShowPackage ==
    /\ pc = "promptuninstall"
    /\ Log("query")
    /\ queried' = Append(queried, pkgname)
    /\ \E probe \in Probes :
         LET r == showpackage(probe)
         IN  /\ probed' = probe
             /\ IF r.exc # ""
                THEN /\ Exit(1, r.exc)
                     /\ UNCHANGED <<results, printed>>
                ELSE /\ results' = r.val
                     /\ pc' = AfterShow(r.val)
                     /\ printed' =
                          IF r.val.isdict
                          THEN printed \o
                               <<PrintArgs(<<T_Name \o <<":">>, r.val.name>>),
                                 PrintArgs(<<T_Version \o <<":">>, r.val.version>>),
                                 PrintArgs(<<T_Location, r.val.location>>),
                                 <<>>>>
                          ELSE printed
                     /\ UNCHANGED <<exitstatus, raised>>
    /\ UNCHANGED <<options, pipv, pkgpath, archive, pkgname, pkgversion,
                   confirms, executed, finderVars>>

\* promptuninstall, lines 254-260: ask, and leave with status 1 on a refusal;
\* an EOFError of input() is not caught.
ConfirmUninstall ==
    /\ pc = "confirmuninstall"
    /\ Log("confirmuninstall")
    /\ \E t \in Terminals :
         LET c == _confirm(t)
         IN  /\ confirms' = Append(confirms, [terminal |-> t, outcome |-> c])
             /\ IF c.exc # "" THEN Exit(1, c.exc)
                ELSE IF AfterUninstallPrompt(c.val) = "exit"
                THEN Exit(1, "SystemExit")
                ELSE /\ pc' = AfterUninstallPrompt(c.val)
                     /\ UNCHANGED <<exitstatus, raised>>
    /\ UNCHANGED <<options, pipv, pkgpath, archive, pkgname, pkgversion,
                   results, probed, queried, executed, printed, finderVars>>

\* uninstallpackage: print the command under dry-run, else run it; the value
\* of os.system is dropped by _execute.
UninstallPackage ==
    /\ pc = "uninstallpackage"
    /\ Log("uninstall")
    /\ LET args == uninstallargs(pipv, pkgname)
       IN  IF options.dryrun
           THEN /\ printed' = printed \o
                       <<T_dryuninstall \o pkgname \o T_space \o results.version,
                         PrintArgs(args)>>
                /\ UNCHANGED executed
           ELSE /\ \E status \in ExitStatuses :
                     executed' = Append(executed,
                                   [command |-> ExecuteCommand(args),
                                    status  |-> status])
                /\ UNCHANGED printed
    /\ pc' = AfterUninstall
    /\ UNCHANGED <<options, pipv, pkgpath, archive, pkgname, pkgversion,
                   results, confirms, probed, queried, exitstatus,
                   raised, finderVars>>

\* promptinstall: ask, and leave with status 1 on a refusal.
PromptInstall ==
    /\ pc = "promptinstall"
    /\ Log("confirminstall")
    /\ \E t \in Terminals :
         LET c == _confirm(t)
         IN  /\ confirms' = Append(confirms, [terminal |-> t, outcome |-> c])
             /\ IF c.exc # "" THEN Exit(1, c.exc)
                ELSE IF AfterInstallPrompt(c.val) = "exit"
                THEN Exit(1, "SystemExit")
                ELSE /\ pc' = AfterInstallPrompt(c.val)
                     /\ UNCHANGED <<exitstatus, raised>>
    /\ UNCHANGED <<options, pipv, pkgpath, archive, pkgname, pkgversion,
                   results, probed, queried, executed, printed, finderVars>>

\* installpackage, then the end of main: the process ends with status 0.
InstallPackage ==
    /\ pc = "installpackage"
    /\ Log("install")
    /\ LET args == installargs(pipv, options.system, pkgpath)
       IN  IF options.dryrun
           THEN /\ printed' = printed \o
                       <<T_dryinstall \o pkgpath \o T_quote, PrintArgs(args)>>
                /\ UNCHANGED executed
           ELSE /\ \E status \in ExitStatuses :
                     executed' = Append(executed,
                                   [command |-> ExecuteCommand(args),
                                    status  |-> status])
                /\ UNCHANGED printed
    /\ pc' = "done"
    /\ exitstatus' = 0
    /\ UNCHANGED <<options, pipv, pkgpath, archive, pkgname, pkgversion,
                   results, confirms, probed, queried, raised,
                   finderVars>>

Next ==
    \/ ParseArgs
    \/ CheckPip
    \/ ConfigPackage
    \/ GetMeta
    \/ ShowPackage
    \/ ConfirmUninstall
    \/ UninstallPackage
    \/ PromptInstall
    \/ InstallPackage

Spec ==
    Init /\ [][Next]_vars

Terminated ==
    pc \in {"done", "exited"}

\* ------------------------------------------------- findpackage on its own

\* findpackage applied to every listing of the catalog, with either wrapper
\* and either strategy.
InitFind ==
    /\ pc = "findpackage"
    /\ \E w \in BOOLEAN, n \in BOOLEAN :
         options = [NoOptions EXCEPT !.wheel = w, !.newsort = n, !.package = T_dot]
    /\ files \in Listings(FindCatalog, MaxFiles)
    /\ wrapper \in Wrappers
    /\ distpath = <<>>
    /\ found = Return(<<>>)
    /\ pipv = <<>>
    /\ pkgpath = <<>>
    /\ archive = [members |-> <<>>]
    /\ pkgname = <<>>
    /\ pkgversion = <<>>
    /\ results = NoResults
    /\ confirms = <<>>
    /\ probed = NoProbe
    /\ queried = <<>>
    /\ executed = <<>>
    /\ printed = <<>>
    /\ events = <<>>
    /\ exitstatus = -1
    /\ raised = ""

\* configpackage, lines 59-60: the directory, then the archive in it.
FindPackage ==
    /\ pc = "findpackage"
    /\ \E env \in DirEnvs :
         /\ distpath' = detectdistpath(options.package, env)
         /\ found' = findpackage(distpath', files, options.wheel,
                                 options.newsort, wrapper)
    /\ pc' = "found"
    /\ UNCHANGED <<options, pipv, pkgpath, archive, pkgname, pkgversion,
                   results, confirms, probed, queried, executed,
                   printed, events, exitstatus, raised, files, wrapper>>

NextFind ==
    FindPackage

SpecFind ==
    InitFind /\ [][NextFind]_vars

\* ------------------------------------------------------------ properties

Happened(event) ==
    \E i \in 1..Len(events) : events[i] = event

Last(seq) ==
    seq[Len(seq)]

\* The user's answer on the terminal is a confirmation: a line, not empty,
\* whose first character is y or Y.
SaysYes(t) ==
    /\ ~t.eof
    /\ t.line # <<>>
    /\ t.line[1] \in {"y", "Y"}

\* The user's answer is a refusal: a line that is empty or starts otherwise.
SaysNo(t) ==
    /\ ~t.eof
    /\ ~SaysYes(t)

\* The package manager the options ask for.
Manager ==
    IF options.pip2 THEN T_pip2 ELSE T_pip3

\* The command lines of the run under dry-run: each line printed after a
\* DRYRUN: line.
DryRunCommands ==
    LET at == SelectSeq([i \in 1..Len(printed) |-> i],
                        LAMBDA i : i > 1 /\ StartsWith(printed[i - 1], T_dryrun))
    IN  [k \in 1..Len(at) |-> printed[at[k]]]

\* The command strings the run handed to os.system.
ExecutedCommands ==
    [i \in 1..Len(executed) |-> executed[i].command]

\* The uninstall and install steps of the run, in order.
ExecutorSteps ==
    SelectSeq(events, LAMBDA e : e \in {"uninstall", "install"})

\* The command line each executor step stands for, spelled out: the manager,
\* the subcommand, --user unless system, the package name or the path.
CommandLine(step) ==
    IF step = "uninstall"
    THEN Manager \o <<" ">> \o T_uninstall \o <<" ">> \o pkgname
    ELSE Manager \o <<" ">> \o T_install \o <<" ">>
         \o (IF options.system THEN <<>> ELSE T_user \o <<" ">>) \o pkgpath

ExpectedCommands ==
    [i \in 1..Len(ExecutorSteps) |-> CommandLine(ExecutorSteps[i])]

\* An uninstall was attempted: the step ran, or an uninstall command was run
\* or printed.
UninstallAttempted ==
    \/ Happened("uninstall")
    \/ \E i \in 1..Len(executed) :
         StartsWith(executed[i].command, pipv \o <<" ">> \o T_uninstall)
    \/ \E i \in 1..Len(printed) :
         StartsWith(printed[i], pipv \o <<" ">> \o T_uninstall)

\* The position of an event in the run, 0 if it did not happen.
Position(event) ==
    IF Happened(event) THEN CHOOSE i \in 1..Len(events) : events[i] = event ELSE 0

\* C1: an uninstall is attempted only after the installed-package query, made
\* for the name read from the archive, returned a found record, and the user
\* then confirmed the uninstall prompt; never when the query found nothing.
C1_UninstallOnlyWhenFound ==
    UninstallAttempted =>
        /\ queried = <<pkgname>>
        /\ ~probed.hangs /\ probed.n # <<>>
        /\ results.isdict
        /\ Len(confirms) >= 1 /\ SaysYes(confirms[1].terminal)
        /\ 0 < Position("query")
        /\ Position("query") < Position("confirmuninstall")
        /\ Position("confirmuninstall") < Position("uninstall")

C1_Witness ==
    /\ Happened("uninstall")
    /\ Len(executed) >= 1
    /\ results.isdict

\* The archive's metadata can be read: both fields are returned.
MetadataReadable ==
    /\ getmetafield(pkgpath, archive, T_name).exc = ""
    /\ getmetafield(pkgpath, archive, T_version).exc = ""

\* C2 as stated, on the runs that no failure of the metadata read, of the
\* query or of the terminal ends: once configpackage has resolved an archive,
\* the run reaches the install prompt whatever happened before it (a refusal
\* of the uninstall prompt included), and installs exactly when that prompt is
\* confirmed.
C2_Original ==
    (Terminated /\ pkgpath # <<>> /\ raised \in {"", "SystemExit"}) =>
        /\ Happened("confirminstall")
        /\ Happened("install") <=> SaysYes(Last(confirms).terminal)

\* C2 amended: once configpackage has resolved an archive, the run reaches the
\* install prompt exactly when the metadata was read and the uninstall branch
\* let it through (the name is empty, or the query returned and found nothing,
\* or the user confirmed the uninstall prompt); otherwise it ends before the
\* install prompt.  The install is performed exactly when the install prompt
\* is reached and confirmed.
C2_InstallPromptReached ==
    (Terminated /\ pkgpath # <<>>) =>
        /\ Happened("confirminstall") <=>
             /\ MetadataReadable
             /\ \/ pkgname = <<>>
                \/ /\ Happened("query") /\ ~probed.hangs
                   /\ \/ probed.n = <<>>
                      \/ Len(confirms) >= 1 /\ SaysYes(confirms[1].terminal)
        /\ Happened("install") <=>
             /\ Happened("confirminstall")
             /\ SaysYes(Last(confirms).terminal)

C2_Witness ==
    /\ pc = "done"
    /\ Happened("uninstall")
    /\ Happened("install")
    /\ Len(confirms) = 2

\* The executor steps account for every command run.
CommandsAccounted ==
    Len(executed) = IF options.dryrun THEN 0 ELSE Len(ExecutorSteps)

\* C3: when the user refuses a confirmation prompt, the run ends there with
\* exit status 1: the refused prompt is the last step of the run, so that no
\* install or uninstall command is run at or after it.
C3_DeclineEndsRun ==
    \A i \in 1..Len(confirms) :
        SaysNo(confirms[i].terminal) =>
            /\ i = Len(confirms)
            /\ pc = "exited"
            /\ exitstatus = 1
            /\ raised = "SystemExit"
            /\ Last(events) \in {"confirmuninstall", "confirminstall"}
            /\ CommandsAccounted
            /\ ~ENABLED Next

C3_Witness ==
    /\ Len(confirms) = 2
    /\ SaysNo(confirms[2].terminal)
    /\ Len(executed) = 1

\* The metadata of the resolved archive could not be read: no manifest entry,
\* or a field absent.
MetadataFailure ==
    /\ Happened("readmeta")
    /\ EndsWith(pkgpath, T_targz) \/ EndsWith(pkgpath, T_whl)
    /\ ~MetadataReadable

\* C4 as stated: a metadata failure on the resolved archive does not end the
\* run; the query and the uninstall branch are skipped and the run goes on to
\* the install prompt.
C4_Claim ==
    MetadataFailure =>
        /\ raised \notin {"AttributeError", "Exception"}
        /\ ~Happened("query")
        /\ ~Happened("uninstall")
        /\ Terminated => Happened("confirminstall")

\* C5: under dry-run nothing is handed to os.system, and the command lines
\* printed are, string for string, the commands a run without dry-run hands
\* to os.system: with or without the flag, they are the lines CommandLine
\* spells out for the executor steps of the run.
C5_DryRunPrintsTheCommand ==
    /\ options.dryrun => executed = <<>> /\ DryRunCommands = ExpectedCommands
    /\ ~options.dryrun => DryRunCommands = <<>> /\ ExecutedCommands = ExpectedCommands

C5_Witness ==
    /\ options.dryrun
    /\ pc = "done"
    /\ Len(DryRunCommands) = 2
    /\ options.system

\* C6 as stated: when the package manager exits non-zero in an executed
\* uninstall or install, the process ends with a non-zero exit status.
C6_Claim ==
    (Terminated /\ \E i \in 1..Len(executed) : executed[i].status # 0) =>
        exitstatus # 0

\* C7 as stated: a query that does not finish within its timeout counts as
\* "not found": no error, the uninstall branch is skipped and the run goes on
\* to the install prompt.
C7_Claim ==
    (Happened("query") /\ probed.hangs) =>
        /\ raised # "TimeoutExpired"
        /\ ~results.isdict
        /\ ~Happened("uninstall")
        /\ Terminated => Happened("confirminstall")

\* C8 as stated: _confirm returns true exactly for a line, not empty, whose
\* first character is y or Y; an empty line and the end of the input stream
\* give false, and it never raises.
C8_Claim ==
    \A i \in 1..Len(confirms) :
        /\ confirms[i].outcome.exc = ""
        /\ confirms[i].outcome.val <=> SaysYes(confirms[i].terminal)

\* The order of the steps of a run.
StepOrder ==
    <<"checkpip", "locate", "readmeta", "query", "confirmuninstall",
      "uninstall", "confirminstall", "install">>

Rank(event) ==
    CHOOSE i \in 1..Len(StepOrder) : StepOrder[i] = event

\* C10: the steps of a run follow the order check manager, locate archive,
\* read metadata, query, confirm uninstall, uninstall, confirm install,
\* install: each at most once, none after a later one.
C10_StepsInOrder ==
    /\ \A i \in 1..Len(events) : \E k \in 1..Len(StepOrder) : StepOrder[k] = events[i]
    /\ \A i, j \in 1..Len(events) : i < j => Rank(events[i]) < Rank(events[j])
    /\ Len(executed) + Len(DryRunCommands) = Len(ExecutorSteps)

C10_Witness ==
    events = StepOrder

\* ------------------------------------------- properties of findpackage

\* The candidates of the listing under test: the regular, readable entries
\* with the extension asked for, in glob's order.
Candidates ==
    SelectSeq(files, LAMBDA e : e.regular /\ EndsWith(e.base,
                                  IF options.wheel THEN T_whl ELSE T_targz))

\* The version a candidate carries, if it can be read.
VersionOf(c) ==
    getmetafield(c.base, c.archive, T_version)

AllReadable ==
    \A i \in 1..Len(Candidates) : VersionOf(Candidates[i]).exc = ""

\* The result is the path of candidate c.
IsPathOf(path, c) ==
    EndsWith(path, <<"/">> \o c.base)

\* The pre-release suffixes, in the priority order of the specification.
Suffixes ==
    <<<<"-", "r", "e", "v">>,
      <<".", "r", "e", "v">>,
      <<"-", "d", "e", "v">>,
      <<".", "d", "e", "v">>,
      <<"-", "b", "e", "t", "a">>,
      <<".", "b", "e", "t", "a">>,
      <<"-", "a", "l", "p", "h", "a">>,
      <<".", "a", "l", "p", "h", "a">>>>

\* The priority of the suffix a version ends in, 0 for a version without one.
SuffixRank(v) ==
    IF \E k \in 1..Len(Suffixes) : EndsWith(v, Suffixes[k])
    THEN CHOOSE k \in 1..Len(Suffixes) :
           /\ EndsWith(v, Suffixes[k])
           /\ \A h \in 1..(k - 1) : ~EndsWith(v, Suffixes[h])
    ELSE 0

\* A version without its pre-release suffix.
BaseVersion(v) ==
    IF SuffixRank(v) = 0 THEN v
    ELSE SubSeq(v, 1, Len(v) - Len(Suffixes[SuffixRank(v)]))

\* The candidate the specification selects: it has the greatest base version
\* (greatest as the specification reads it, "lexicographically/semantically",
\* that is in the order of the wrapper in use) and, among the candidates of
\* that base version, the suffix of the highest priority if any of them has a
\* suffix.
IsSpecifiedChoice(c) ==
    LET v  == VersionOf(c).val
        vs == {VersionOf(Candidates[i]).val : i \in 1..Len(Candidates)}
        same == {w \in vs : BaseVersion(w) = BaseVersion(v)}
    IN  /\ \A w \in vs : KeyGreater(BaseVersion(w), BaseVersion(v), wrapper) # "True"
        /\ IF \E w \in same : SuffixRank(w) > 0
           THEN /\ SuffixRank(v) > 0
                /\ \A w \in same : SuffixRank(w) > 0 => SuffixRank(v) <= SuffixRank(w)
           ELSE TRUE

\* Two candidates whose keys the wrapper cannot compare.
SomeIncomparable ==
    \E i, j \in 1..Len(Candidates) :
        KeyGreater(VersionOf(Candidates[i]).val, VersionOf(Candidates[j]).val,
                   wrapper) \notin {"True", "False"}

VersionsAre(vs) ==
    /\ AllReadable
    /\ {VersionOf(Candidates[i]).val : i \in 1..Len(Candidates)} = vs

====
